---- MODULE Spec2Model ----
(***************************************************************************)
(* The leaderboard service of server.js: POST /api/score, GET and DELETE   *)
(* /api/leaderboard, over the in-memory list memoryLeaderboard and the     *)
(* Score collection of the document store, selected per call by            *)
(* mongoose.connection.readyState.                                         *)
(***************************************************************************)
EXTENDS Integers, Sequences, FiniteSets

\* ------------------------------------------------------------------------
\* Program constants
\* ------------------------------------------------------------------------

\* memoryLeaderboard.slice(0, 50)
MaxEntries == 50

\* .limit(20) and memoryLeaderboard.slice(0, 20)
ReadLimit == 20

\* name.substring(0, 20)
NameLimit == 20

\* accuracy || 100
DefaultAccuracy == 100

\* mongoose.connection.readyState === 1
Connected == 1

\* readyState while mongoose.connect() is still pending, and after a loss
Connecting == 2
Disconnected == 0

\* The value parseFloat gives for a text that starts with no digit. Times in
\* the model are naturals, so the marker lies outside them; every comparison
\* goes through Compare and Leq, which treat it apart.
NaN == -1

\* ------------------------------------------------------------------------
\* Bounds of the model
\* ------------------------------------------------------------------------

\* Date.now() runs over 0..MaxNow
MaxNow == 1

\* memory submissions admitted while the list is shorter than this (Spec)
MaxMemory == 1

\* memory submissions admitted while the list is shorter than this (SpecMemory)
MaxShort == 3

\* Score documents constructed (store-branch submissions) per behaviour
MaxDocs == 1

\* requests that may wait on the store at the same time
MaxPending == 2

\* records other than the common one admitted into the in-memory list at a
\* time (SpecCap)
MaxOdd == 1

\* ------------------------------------------------------------------------
\* JSON values of a request body
\* ------------------------------------------------------------------------

Undefined == [t |-> "undefined", n |-> 0, s |-> <<>>]
Num(k) == [t |-> "number", n |-> k, s |-> <<>>]
Str(chars) == [t |-> "string", n |-> 0, s |-> chars]

\* !v : undefined, 0 and "" are falsy
Falsy(v) == \/ v.t = "undefined"
            \/ v.t = "number" /\ v.n = 0
            \/ v.t = "string" /\ v.s = <<>>

Digits == <<"0", "1", "2", "3", "4", "5", "6", "7", "8", "9">>

IsDigit(c) == \E d \in 1..10 : Digits[d] = c

DigitValue(c) == (CHOOSE d \in 1..10 : Digits[d] = c) - 1

\* value of the longest prefix of digits of chars, continuing from acc
RECURSIVE DigitPrefix(_, _)
DigitPrefix(chars, acc) ==
  IF chars = <<>> \/ ~IsDigit(Head(chars))
  THEN acc
  ELSE DigitPrefix(Tail(chars), 10 * acc + DigitValue(Head(chars)))

\* parseFloat(v): the argument is converted to text and its longest numeric
\* prefix is read; NaN when there is none. The request values of the model
\* are naturals and texts of digits and letters.
ParseFloat(v) ==
  IF v.t = "number" THEN v.n
  ELSE IF v.t = "string" /\ v.s # <<>> /\ IsDigit(Head(v.s))
       THEN DigitPrefix(v.s, 0)
       ELSE NaN

\* s.substring(0, k)
Substring(s, k) == IF Len(s) <= k THEN s ELSE SubSeq(s, 1, k)

\* accuracy || 100
OrDefault(v) == IF Falsy(v) THEN DefaultAccuracy ELSE v.n

\* The comparator (a, b) => a.time - b.time as sort reads it: the difference
\* is NaN when either time is, and sort counts a NaN result as 0.
Compare(a, b) == IF a.time = NaN \/ b.time = NaN THEN 0 ELSE a.time - b.time

\* x <= y on numbers, false when either is NaN
Leq(x, y) == x # NaN /\ y # NaN /\ x <= y

\* ------------------------------------------------------------------------
\* Array.prototype.sort on an array shorter than 64 elements: the leading run
\* is found (and reversed when strictly descending), then every later element
\* is placed by binary insertion.
\* ------------------------------------------------------------------------

Reverse(a) == [i \in 1..Len(a) |-> a[Len(a) + 1 - i]]

\* length of the run that starts at a[1], a[2]; i is the next index to test
RECURSIVE RunLength(_, _, _)
RunLength(a, i, descending) ==
  IF i > Len(a) THEN i - 1
  ELSE IF descending
       THEN IF Compare(a[i], a[i - 1]) >= 0 THEN i - 1 ELSE RunLength(a, i + 1, descending)
       ELSE IF Compare(a[i], a[i - 1]) < 0 THEN i - 1 ELSE RunLength(a, i + 1, descending)

\* 0-based position in a[1..right] where pivot goes: after the elements that
\* do not compare greater
RECURSIVE SearchSlot(_, _, _, _)
SearchSlot(a, pivot, left, right) ==
  IF left >= right THEN left
  ELSE LET mid == left + ((right - left) \div 2)
       IN IF Compare(pivot, a[mid + 1]) < 0
          THEN SearchSlot(a, pivot, left, mid)
          ELSE SearchSlot(a, pivot, mid + 1, right)

\* a with a[start] moved to 0-based position slot
MoveTo(a, start, slot) ==
  [i \in 1..Len(a) |->
     IF i <= slot THEN a[i]
     ELSE IF i = slot + 1 THEN a[start]
     ELSE IF i <= start THEN a[i - 1]
     ELSE a[i]]

RECURSIVE BinaryInsertion(_, _)
BinaryInsertion(a, start) ==
  IF start > Len(a) THEN a
  ELSE BinaryInsertion(MoveTo(a, start, SearchSlot(a, a[start], 0, start - 1)), start + 1)

Sort(a) ==
  IF Len(a) < 2 THEN a
  ELSE LET descending == Compare(a[2], a[1]) < 0
           run == RunLength(a, 3, descending)
           made == IF descending
                   THEN Reverse(SubSeq(a, 1, run)) \o SubSeq(a, run + 1, Len(a))
                   ELSE a
       IN BinaryInsertion(made, run + 1)

\* a.slice(0, k - 1): a slice that keeps one element too few
SliceShort(a, k) == IF Len(a) <= k THEN a ELSE SubSeq(a, 1, k - 1)

\* a.slice(0, k)
Slice(a, k) == IF Len(a) <= k THEN a ELSE SubSeq(a, 1, k)

\* a.findIndex(s => s.id === id) + 1 : 0 when no element has the id
RECURSIVE FindIndex1(_, _, _)
FindIndex1(a, id, i) ==
  IF i > Len(a) THEN 0
  ELSE IF a[i].id = id THEN i
  ELSE FindIndex1(a, id, i + 1)

\* ------------------------------------------------------------------------
\* State
\* ------------------------------------------------------------------------

VARIABLES
  readyState,         \* mongoose.connection.readyState
  now,                \* the clock Date.now() and new Date() read
  memoryLeaderboard,  \* let memoryLeaderboard = []
  scores,             \* the documents of the Score collection, in insertion order
  docs,               \* number of Score documents constructed: the next _id
  pending,            \* the requests waiting on a store operation, by slot
  resp,               \* the response the last step sent (NoResp when it sent none)
  evicted,            \* history: times sliced off the list since it was last emptied
  sinceClear          \* history: the clear-all answered last with no submission since

vars == <<readyState, now, memoryLeaderboard, scores, docs, pending, resp,
          evicted, sinceClear>>

NoData == [id |-> 0, name |-> <<>>, time |-> 0, accuracy |-> 0, date |-> 0]

NoBody == [name |-> Undefined, time |-> Undefined, accuracy |-> Undefined]

NoClear == [store |-> "none", quiet |-> FALSE]

Idle == [op |-> "idle", pc |-> "", doc |-> NoData, found |-> <<>>, count |-> 0,
         req |-> NoBody, after |-> NoClear, quiet |-> FALSE]

NoResp == [op |-> "none", status |-> 0, storage |-> "", data |-> NoData,
           rank |-> 0, totalPlayers |-> 0, leaderboard |-> <<>>, count |-> 0,
           message |-> "", required |-> <<>>,
           req |-> NoBody, flag |-> Connecting, cause |-> "", position |-> 0,
           after |-> NoClear]

MsgEmpty == "no records yet"
MsgLoaded == "leaderboard loaded"

\* the message of a leaderboard response over n listed records
Message(n) == IF n = 0 THEN MsgEmpty ELSE MsgLoaded

Slots == 1..MaxPending

FreeSlots == {i \in Slots : pending[i].op = "idle"}

\* the slot a new store-branch request takes
NewSlot == CHOOSE i \in FreeSlots : \A j \in FreeSlots : i <= j

\* a submission or one of its steps ends what sinceClear and the waiting
\* reads and clears record
Disturbed(p) == [i \in Slots |-> [p[i] EXCEPT !.after = NoClear, !.quiet = FALSE]]

Init ==
  /\ readyState = Connecting
  /\ now = 0
  /\ memoryLeaderboard = <<>>
  /\ scores = <<>>
  /\ docs = 0
  /\ pending = [i \in Slots |-> Idle]
  /\ resp = NoResp
  /\ evicted = {}
  /\ sinceClear = NoClear

\* ------------------------------------------------------------------------
\* POST /api/score
\* ------------------------------------------------------------------------

\* readyState !== 0: a test that also takes a pending connection for an open one
UseStoreUnlessDisconnected == readyState # Disconnected

\* mongoose.connection.readyState === 1
UseStore == readyState = Connected

\* !name: a test that looks at the name only
InvalidNameOnly(body) == Falsy(body.name)

\* !name || !time
Invalid(body) == Falsy(body.name) \/ Falsy(body.time)

\* name.substring(0, 20) is a TypeError when name is no text
Throws(body) == body.name.t # "string"

\* the record both branches build from the body
ScoreData(body, id) ==
  [id |-> id,
   name |-> Substring(body.name.s, NameLimit),
   time |-> ParseFloat(body.time),
   accuracy |-> OrDefault(body.accuracy),
   date |-> now]

\* memoryLeaderboard.push(scoreData); memoryLeaderboard.sort(...)
Pushed(list, scoreData) == Sort(Append(list, scoreData))

\* where the pushed record stands after the sort (0 when sliced off): the
\* sort is followed on the list with the new record marked
Position(list, scoreData) ==
  LET marked == [i \in 1..Len(list) |-> [time |-> list[i].time, id |-> 0]]
      sorted == Sort(Append(marked, [time |-> scoreData.time, id |-> 1]))
      at == FindIndex1(sorted, 1, 1)
  IN IF at > MaxEntries THEN 0 ELSE at

SubmitResp(body) ==
  [NoResp EXCEPT !.op = "submit", !.req = body, !.flag = readyState]

PostScore(body) ==
  /\ sinceClear' = NoClear
  /\ UNCHANGED <<readyState, now>>
  /\ IF Invalid(body)
     THEN /\ resp' = [SubmitResp(body) EXCEPT !.status = 400,
                                              !.required = <<"name", "time">>]
          /\ pending' = Disturbed(pending)
          /\ UNCHANGED <<memoryLeaderboard, scores, docs, evicted>>
     ELSE IF Throws(body)
     THEN /\ resp' = [SubmitResp(body) EXCEPT !.status = 500, !.cause = "thrown"]
          /\ pending' = Disturbed(pending)
          /\ UNCHANGED <<memoryLeaderboard, scores, docs, evicted>>
     ELSE IF UseStore
     THEN /\ FreeSlots # {}
          /\ pending' = [Disturbed(pending) EXCEPT ![NewSlot] =
                           [Idle EXCEPT !.op = "submit", !.pc = "save",
                                        !.doc = ScoreData(body, docs),
                                        !.req = body]]
          /\ docs' = docs + 1
          /\ resp' = NoResp
          /\ UNCHANGED <<memoryLeaderboard, scores, evicted>>
     ELSE LET scoreData == ScoreData(body, now)
              sorted == Pushed(memoryLeaderboard, scoreData)
              kept == Slice(sorted, MaxEntries)
          IN /\ memoryLeaderboard' = kept
             /\ evicted' = evicted \cup
                             {sorted[i].time : i \in (Len(kept) + 1)..Len(sorted)}
             /\ resp' = [SubmitResp(body) EXCEPT
                           !.status = 201,
                           !.data = scoreData,
                           !.storage = "memory",
                           !.rank = FindIndex1(kept, scoreData.id, 1),
                           !.totalPlayers = Len(kept),
                           !.position = Position(memoryLeaderboard, scoreData)]
             /\ pending' = Disturbed(pending)
             /\ UNCHANGED <<scores, docs>>

\* scoreData.save() settles: the document is inserted, or the store rejects
\* it. A time that is no number never passes the schema (time: Number).
SaveCompletes(i) ==
  /\ pending[i].op = "submit"
  /\ pending[i].pc = "save"
  /\ sinceClear' = NoClear
  /\ \/ /\ pending[i].doc.time # NaN
        /\ scores' = Append(scores, pending[i].doc)
        /\ pending' = [Disturbed(pending) EXCEPT ![i].pc = "saved"]
     \/ /\ scores' = scores
        /\ pending' = [Disturbed(pending) EXCEPT ![i].pc = "rejected"]
  /\ resp' = NoResp
  /\ UNCHANGED <<readyState, now, memoryLeaderboard, docs, evicted>>

\* a handler that falls back to the in-memory list when the insert is
\* rejected, where the code answers 500
PostScoreResumeFallback(i) ==
  /\ pending[i].op = "submit"
  /\ pending[i].pc \in {"saved", "rejected"}
  /\ sinceClear' = NoClear
  /\ resp' = IF pending[i].pc = "saved"
             THEN [NoResp EXCEPT !.op = "submit", !.req = pending[i].req,
                                 !.flag = Connected, !.status = 201,
                                 !.data = pending[i].doc, !.storage = "mongodb"]
             ELSE [NoResp EXCEPT !.op = "submit", !.req = pending[i].req,
                                 !.flag = Connected, !.status = 201,
                                 !.data = pending[i].doc, !.storage = "memory"]
  /\ memoryLeaderboard' = IF pending[i].pc = "saved"
                          THEN memoryLeaderboard
                          ELSE Slice(Pushed(memoryLeaderboard, pending[i].doc), MaxEntries)
  /\ pending' = [Disturbed(pending) EXCEPT ![i] = Idle]
  /\ UNCHANGED <<readyState, now, scores, docs, evicted>>

\* the handler resumes after await scoreData.save(): 201, or the catch's 500
PostScoreResume(i) ==
  /\ pending[i].op = "submit"
  /\ pending[i].pc \in {"saved", "rejected"}
  /\ sinceClear' = NoClear
  /\ resp' = IF pending[i].pc = "saved"
             THEN [NoResp EXCEPT !.op = "submit", !.req = pending[i].req,
                                 !.flag = Connected, !.status = 201,
                                 !.data = pending[i].doc, !.storage = "mongodb"]
             ELSE [NoResp EXCEPT !.op = "submit", !.req = pending[i].req,
                                 !.flag = Connected, !.status = 500,
                                 !.cause = "rejected", !.data = pending[i].doc]
  /\ pending' = [Disturbed(pending) EXCEPT ![i] = Idle]
  /\ UNCHANGED <<readyState, now, memoryLeaderboard, scores, docs, evicted>>

\* ------------------------------------------------------------------------
\* GET /api/leaderboard
\* ------------------------------------------------------------------------

\* Score.find().sort({ time: 1 }).limit(20) over the collection
FindSorted(collection) == Slice(Sort(collection), ReadLimit)

GetLeaderboard ==
  /\ UNCHANGED <<readyState, now, memoryLeaderboard, scores, docs, evicted, sinceClear>>
  /\ IF UseStore
     THEN /\ FreeSlots # {}
          /\ pending' = [pending EXCEPT ![NewSlot] =
                           [Idle EXCEPT !.op = "read", !.pc = "find",
                                        !.after = sinceClear]]
          /\ resp' = NoResp
     ELSE /\ resp' = [NoResp EXCEPT
                        !.op = "read", !.status = 200, !.flag = readyState,
                        !.leaderboard = Slice(memoryLeaderboard, ReadLimit),
                        !.count = Len(memoryLeaderboard),
                        !.storage = "memory",
                        !.message = Message(Len(memoryLeaderboard)),
                        !.after = sinceClear]
          /\ pending' = pending

\* the find settles with the documents of that moment, or the store rejects it
FindCompletes(i) ==
  /\ pending[i].op = "read"
  /\ pending[i].pc = "find"
  /\ \/ pending' = [pending EXCEPT ![i].pc = "found", ![i].found = FindSorted(scores)]
     \/ pending' = [pending EXCEPT ![i].pc = "rejected"]
  /\ resp' = NoResp
  /\ UNCHANGED <<readyState, now, memoryLeaderboard, scores, docs, evicted, sinceClear>>

\* the handler resumes after the find and calls Score.countDocuments()
GetLeaderboardCount(i) ==
  /\ pending[i].op = "read"
  /\ pending[i].pc = "found"
  /\ pending' = [pending EXCEPT ![i].pc = "count"]
  /\ resp' = NoResp
  /\ UNCHANGED <<readyState, now, memoryLeaderboard, scores, docs, evicted, sinceClear>>

\* countDocuments settles with the count of that moment, or is rejected
CountCompletes(i) ==
  /\ pending[i].op = "read"
  /\ pending[i].pc = "count"
  /\ \/ pending' = [pending EXCEPT ![i].pc = "counted", ![i].count = Len(scores)]
     \/ pending' = [pending EXCEPT ![i].pc = "rejected"]
  /\ resp' = NoResp
  /\ UNCHANGED <<readyState, now, memoryLeaderboard, scores, docs, evicted, sinceClear>>

\* the handler resumes and answers: the list found, the count, and a message
\* chosen by scores.length; or the catch's 500
GetLeaderboardResume(i) ==
  /\ pending[i].op = "read"
  /\ pending[i].pc \in {"counted", "rejected"}
  /\ resp' = IF pending[i].pc = "counted"
             THEN [NoResp EXCEPT
                     !.op = "read", !.status = 200, !.flag = Connected,
                     !.leaderboard = pending[i].found,
                     !.count = pending[i].count,
                     !.storage = "mongodb",
                     !.message = Message(Len(pending[i].found)),
                     !.after = pending[i].after]
             ELSE [NoResp EXCEPT !.op = "read", !.status = 500, !.flag = Connected,
                                 !.cause = "rejected"]
  /\ pending' = [pending EXCEPT ![i] = Idle]
  /\ UNCHANGED <<readyState, now, memoryLeaderboard, scores, docs, evicted, sinceClear>>

\* ------------------------------------------------------------------------
\* DELETE /api/leaderboard
\* ------------------------------------------------------------------------

\* a handler whose memory branch answers without emptying the list
DeleteLeaderboardKeeps ==
  /\ UNCHANGED <<readyState, now, scores, docs>>
  /\ IF UseStore
     THEN /\ FreeSlots # {}
          /\ pending' = [pending EXCEPT ![NewSlot] =
                           [Idle EXCEPT !.op = "clear", !.pc = "deleteMany"]]
          /\ resp' = NoResp
          /\ UNCHANGED <<memoryLeaderboard, evicted, sinceClear>>
     ELSE /\ memoryLeaderboard' = memoryLeaderboard
          /\ evicted' = evicted
          /\ resp' = [NoResp EXCEPT !.op = "clear", !.status = 200,
                                    !.flag = readyState, !.storage = "memory"]
          /\ sinceClear' = [store |-> "memory", quiet |-> TRUE]
          /\ pending' = pending

DeleteLeaderboard ==
  /\ UNCHANGED <<readyState, now, scores, docs>>
  /\ IF UseStore
     THEN /\ FreeSlots # {}
          /\ pending' = [pending EXCEPT ![NewSlot] =
                           [Idle EXCEPT !.op = "clear", !.pc = "deleteMany"]]
          /\ resp' = NoResp
          /\ UNCHANGED <<memoryLeaderboard, evicted, sinceClear>>
     ELSE /\ memoryLeaderboard' = <<>>
          /\ evicted' = {}
          /\ resp' = [NoResp EXCEPT !.op = "clear", !.status = 200,
                                    !.flag = readyState, !.storage = "memory"]
          /\ sinceClear' = [store |-> "memory", quiet |-> TRUE]
          /\ pending' = pending

\* Score.deleteMany({}) settles: every document is gone, or the store rejects
DeleteManyCompletes(i) ==
  /\ pending[i].op = "clear"
  /\ pending[i].pc = "deleteMany"
  /\ \/ /\ scores' = <<>>
        /\ pending' = [pending EXCEPT ![i].pc = "deleted", ![i].quiet = TRUE]
     \/ /\ scores' = scores
        /\ pending' = [pending EXCEPT ![i].pc = "rejected"]
  /\ resp' = NoResp
  /\ UNCHANGED <<readyState, now, memoryLeaderboard, docs, evicted, sinceClear>>

DeleteLeaderboardResume(i) ==
  /\ pending[i].op = "clear"
  /\ pending[i].pc \in {"deleted", "rejected"}
  /\ IF pending[i].pc = "deleted"
     THEN /\ resp' = [NoResp EXCEPT !.op = "clear", !.status = 200,
                                    !.flag = Connected, !.storage = "mongodb"]
          /\ sinceClear' = [store |-> "mongodb", quiet |-> pending[i].quiet]
     ELSE /\ resp' = [NoResp EXCEPT !.op = "clear", !.status = 500,
                                    !.flag = Connected, !.cause = "rejected"]
          /\ sinceClear' = sinceClear
  /\ pending' = [pending EXCEPT ![i] = Idle]
  /\ UNCHANGED <<readyState, now, memoryLeaderboard, scores, docs, evicted>>

\* ------------------------------------------------------------------------
\* The connection and the clock
\* ------------------------------------------------------------------------

Unchanged ==
  /\ resp' = NoResp
  /\ UNCHANGED <<now, memoryLeaderboard, scores, docs, pending, evicted, sinceClear>>

\* mongoose.connect(...).then: the connection opens (also the driver's own
\* reconnection after a loss)
ConnectionOpens ==
  /\ readyState \in {Connecting, Disconnected}
  /\ readyState' = Connected
  /\ Unchanged

\* mongoose.connect(...).catch: the connection attempt fails
ConnectionFails ==
  /\ readyState = Connecting
  /\ readyState' = Disconnected
  /\ Unchanged

\* an open connection is lost
ConnectionLost ==
  /\ readyState = Connected
  /\ readyState' = Disconnected
  /\ Unchanged

Tick ==
  /\ now < MaxNow
  /\ now' = now + 1
  /\ resp' = NoResp
  /\ UNCHANGED <<readyState, memoryLeaderboard, scores, docs, pending, evicted,
                 sinceClear>>

\* ------------------------------------------------------------------------
\* Request bodies
\* ------------------------------------------------------------------------

Al == <<"A", "l">>

LongName == <<"a", "b", "c", "d", "e", "f", "g", "h", "i", "j", "k", "l", "m",
              "n", "o", "p", "q", "r", "s", "t", "u">>

Body(name, time, accuracy) == [name |-> name, time |-> time, accuracy |-> accuracy]

Bodies ==
  { Body(Str(Al), Num(12), Undefined),
    Body(Str(LongName), Str(<<"7">>), Num(0)),
    Body(Str(Al), Str(<<"a", "b", "c">>), Num(95)),
    Body(Str(Al), Undefined, Num(95)),
    Body(Undefined, Num(12), Undefined),
    Body(Num(7), Num(12), Undefined) }

CapBodies ==
  { Body(Str(Al), Num(12), Undefined),
    Body(Str(Al), Str(<<"7">>), Undefined),
    Body(Str(Al), Str(<<"a", "b", "c">>), Undefined),
    Body(Str(Al), Undefined, Undefined) }

\* a body that carries no name or no time
Missing(body) == body.name.t = "undefined" \/ body.time.t = "undefined"

\* ------------------------------------------------------------------------
\* Specifications
\* ------------------------------------------------------------------------

\* the bounds of Spec on submissions
Admit(body) ==
  \/ Invalid(body)
  \/ Throws(body)
  \/ IF UseStore
     THEN docs < MaxDocs
     ELSE Len(memoryLeaderboard) < MaxMemory

Next ==
  \/ \E body \in Bodies : Admit(body) /\ PostScore(body)
  \/ \E i \in Slots : SaveCompletes(i)
  \/ \E i \in Slots : PostScoreResume(i)
  \/ GetLeaderboard
  \/ \E i \in Slots : FindCompletes(i)
  \/ \E i \in Slots : GetLeaderboardCount(i)
  \/ \E i \in Slots : CountCompletes(i)
  \/ \E i \in Slots : GetLeaderboardResume(i)
  \/ DeleteLeaderboard
  \/ \E i \in Slots : DeleteManyCompletes(i)
  \/ \E i \in Slots : DeleteLeaderboardResume(i)
  \/ ConnectionOpens
  \/ ConnectionFails
  \/ ConnectionLost

\* The service over both stores, with requests overlapping on the store. The
\* clock stands still: ids and dates are read under SpecMemory.
Spec == Init /\ [][Next]_vars

\* the record the common submission of SpecCap leaves
Common == ScoreData(Body(Str(Al), Num(12), Undefined), now)

\* the number of records of list other than the common one
OddCount(list) == Cardinality({i \in 1..Len(list) : list[i] # Common})

\* the bound of SpecCap on submissions: any number of the common one, and the
\* others while the list holds fewer than MaxOdd of them
AdmitCap(body) ==
  \/ Invalid(body)
  \/ ~Throws(body) /\ ScoreData(body, now) = Common
  \/ OddCount(memoryLeaderboard) < MaxOdd

\* The service in memory-only mode: the connection never opens.
NextCap ==
  \/ \E body \in CapBodies : AdmitCap(body) /\ PostScore(body)
  \/ DeleteLeaderboard
  \/ ConnectionFails

SpecCap == Init /\ [][NextCap]_vars

\* the bound of SpecMemory on submissions
AdmitMemory(body) ==
  Invalid(body) \/ Throws(body) \/ Len(memoryLeaderboard) < MaxShort

\* The service in memory-only mode over short lists, with the clock running.
NextMemory ==
  \/ \E body \in Bodies : AdmitMemory(body) /\ PostScore(body)
  \/ GetLeaderboard
  \/ DeleteLeaderboard
  \/ ConnectionFails
  \/ Tick

SpecMemory == Init /\ [][NextMemory]_vars

\* ------------------------------------------------------------------------
\* Properties
\* ------------------------------------------------------------------------

AllBodies == Bodies \cup CapBodies

\* occurrences of record r in list
Count(r, list) == Cardinality({i \in 1..Len(list) : list[i] = r})

\* how many record occurrences of old are no longer in new
Lost(old, new) ==
  Cardinality({i \in 1..Len(old) :
                 Cardinality({j \in 1..i : old[j] = old[i]}) > Count(old[i], new)})

\* a step of the memory branch of DELETE /api/leaderboard
ClearsMemory == DeleteLeaderboard /\ readyState # Connected

\* a step in which a deleteMany takes effect
ClearsStore == \E i \in Slots : DeleteManyCompletes(i) /\ pending'[i].pc = "deleted"

\* a step of a request that took the store branch
StoreStep(i) ==
  \/ SaveCompletes(i) \/ PostScoreResume(i)
  \/ FindCompletes(i) \/ GetLeaderboardCount(i) \/ CountCompletes(i)
  \/ GetLeaderboardResume(i)
  \/ DeleteManyCompletes(i) \/ DeleteLeaderboardResume(i)

\* C1: the in-memory leaderboard has at most 50 entries and its times never
\* decrease along the list (entries whose time is no number left aside).
C1_CappedAndAscending ==
  /\ Len(memoryLeaderboard) <= MaxEntries
  /\ \A i, j \in 1..Len(memoryLeaderboard) :
       (i < j /\ memoryLeaderboard[i].time # NaN /\ memoryLeaderboard[j].time # NaN)
         => memoryLeaderboard[i].time <= memoryLeaderboard[j].time

\* the half of C1 that the code keeps: the cap
C1_Capped == Len(memoryLeaderboard) <= MaxEntries

\* C2: once more than 50 memory submissions were accepted since the list was
\* last emptied (something was sliced off), the list holds exactly 50 entries
\* and they are the 50 lowest times submitted: no number was sliced off while
\* the list kept a higher one, or kept a time that is no number.
C2_FiftyLowestKept ==
  evicted # {} =>
    /\ Len(memoryLeaderboard) = MaxEntries
    /\ \A i \in 1..Len(memoryLeaderboard) : \A d \in evicted :
         d # NaN => Leq(memoryLeaderboard[i].time, d)

\* C3: an accepted memory submission answers with the rank of the new record,
\* its 1-based position in the list after the sort, between 1 and
\* totalPlayers, and totalPlayers is the length of the list.
C3_RankIsPosition ==
  (resp.op = "submit" /\ resp.status = 201 /\ resp.storage = "memory") =>
    /\ resp.totalPlayers = Len(memoryLeaderboard)
    /\ resp.rank = resp.position
    /\ 1 <= resp.rank
    /\ resp.rank <= resp.totalPlayers

\* C4 as stated: a record leaves its leaderboard only in a clear-all step of
\* that store.
C4_OnlyClearRemoves ==
  [][/\ Lost(memoryLeaderboard, memoryLeaderboard') = 0 \/ ClearsMemory
     /\ Lost(scores, scores') = 0 \/ ClearsStore]_vars

\* C4 as amended: a record leaves its leaderboard only in a clear-all step of
\* that store or, in the in-memory list, as the one record a submission to a
\* list of 50 entries slices off.
C4_ClearOrSliceRemoves ==
  [][/\ \/ Lost(memoryLeaderboard, memoryLeaderboard') = 0
        \/ ClearsMemory
        \/ /\ Len(memoryLeaderboard) = MaxEntries
           /\ Len(memoryLeaderboard') = MaxEntries
           /\ Lost(memoryLeaderboard, memoryLeaderboard') = 1
           /\ \E body \in AllBodies : PostScore(body)
     /\ Lost(scores, scores') = 0 \/ ClearsStore]_vars

\* a submission was answered 201 after the list of 50 entries sliced one off
C4_Witness ==
  /\ resp.op = "submit"
  /\ resp.status = 201
  /\ Len(memoryLeaderboard) = MaxEntries
  /\ evicted # {}

\* C5: a submission without name or without time is answered 400 with
\* required = [name, time] and changes neither leaderboard.
C5_MissingFieldsRejected ==
  [][\A body \in AllBodies :
       (Missing(body) /\ PostScore(body)) =>
         /\ resp'.status = 400
         /\ resp'.required = <<"name", "time">>
         /\ memoryLeaderboard' = memoryLeaderboard
         /\ scores' = scores
         /\ docs' = docs]_vars

\* a submission without a field was answered 400 while both leaderboards
\* held records
C5_Witness ==
  /\ resp.op = "submit"
  /\ resp.status = 400
  /\ Missing(resp.req)
  /\ memoryLeaderboard # <<>>
  /\ scores # <<>>

\* the answer of a read that found nothing
EmptyAnswer ==
  /\ resp.leaderboard = <<>>
  /\ resp.count = 0
  /\ resp.message = MsgEmpty

\* C6 as stated: a read issued after a clear-all answered success, with no
\* submission handled since that answer, returns an empty list, count 0 and
\* the 'no records yet' message.
C6_ReadAfterClearEmpty ==
  (resp.op = "read" /\ resp.status = 200 /\ resp.after.store # "none")
    => EmptyAnswer

\* C6 as amended: the same, for a read served from the store the clear-all
\* emptied, when no submission was handled since the clear-all's delete.
C6_ReadAfterClearSameStore ==
  (/\ resp.op = "read"
   /\ resp.status = 200
   /\ resp.after.store = resp.storage
   /\ resp.after.quiet)
    => EmptyAnswer

\* such a read was answered from the store, which had held a document, while
\* the in-memory list held a record
C6_Witness ==
  /\ resp.op = "read"
  /\ resp.status = 200
  /\ resp.storage = "mongodb"
  /\ resp.after.store = "mongodb"
  /\ resp.after.quiet
  /\ docs > 0
  /\ memoryLeaderboard # <<>>

\* C7: every call works on the store readyState selects when the call
\* arrives and leaves the other one as it is, and the storage tag of its
\* answer names the store it worked on.
C7_OneStorePerCall ==
  [][/\ \A body \in AllBodies :
          PostScore(body) =>
            IF readyState = Connected
            THEN /\ memoryLeaderboard' = memoryLeaderboard
                 /\ resp'.storage # "memory"
            ELSE /\ scores' = scores
                 /\ docs' = docs
                 /\ \A i \in Slots : pending'[i].op = pending[i].op
                 /\ resp'.storage # "mongodb"
                 /\ resp'.status = 201 => resp'.storage = "memory"
     /\ GetLeaderboard =>
          IF readyState = Connected
          THEN resp' = NoResp
          ELSE /\ \A i \in Slots : pending'[i].op = pending[i].op
               /\ resp'.storage = "memory"
               /\ resp'.leaderboard = Slice(memoryLeaderboard, ReadLimit)
               /\ resp'.count = Len(memoryLeaderboard)
     /\ DeleteLeaderboard =>
          IF readyState = Connected
          THEN memoryLeaderboard' = memoryLeaderboard /\ resp' = NoResp
          ELSE /\ scores' = scores
               /\ \A i \in Slots : pending'[i].op = pending[i].op
               /\ resp'.storage = "memory"
     /\ \A i \in Slots :
          StoreStep(i) =>
            /\ memoryLeaderboard' = memoryLeaderboard
            /\ resp'.storage # "memory"
            /\ resp'.status \in {200, 201} => resp'.storage = "mongodb"
            /\ (FindCompletes(i) /\ pending'[i].pc = "found") =>
                 pending'[i].found = FindSorted(scores)
            /\ (resp'.op = "read" /\ resp'.status = 200) =>
                 /\ resp'.leaderboard = pending[i].found
                 /\ resp'.count = pending[i].count]_vars

\* a read was answered from the store with a document while the in-memory
\* list held a record of its own
C7_Witness ==
  /\ resp.op = "read"
  /\ resp.status = 200
  /\ resp.storage = "mongodb"
  /\ Len(resp.leaderboard) = 1
  /\ memoryLeaderboard # <<>>
  /\ readyState # Connected

\* C8: the record of an accepted submission carries accuracy 100 when the
\* request had none, and the accuracy of the request otherwise.
C8_AccuracyStored ==
  (resp.op = "submit" /\ resp.status = 201) =>
    resp.data.accuracy = IF resp.req.accuracy.t = "undefined"
                         THEN DefaultAccuracy
                         ELSE resp.req.accuracy.n

\* C9: a submission that arrived with the store reachable and whose insert is
\* rejected is answered 500 and ends there: no step of it changes the
\* in-memory list, the store holds no document of it, and nothing of it is
\* left waiting.
C9_RejectedInsertNotRedirected ==
  [][\A i \in Slots :
       /\ (SaveCompletes(i) /\ pending'[i].pc = "rejected") =>
            /\ scores' = scores
            /\ memoryLeaderboard' = memoryLeaderboard
       /\ (PostScoreResume(i) /\ pending[i].pc = "rejected") =>
            /\ resp'.status = 500
            /\ pending'[i].op = "idle"
            /\ docs' = docs
            /\ memoryLeaderboard' = memoryLeaderboard
            /\ scores' = scores
            /\ \A k \in 1..Len(scores') : scores'[k].id # pending[i].doc.id]_vars

\* a submission with a well-formed time was answered 500 after its insert was
\* rejected, by when the connection was no longer open
C9_Witness ==
  /\ resp.op = "submit"
  /\ resp.status = 500
  /\ resp.cause = "rejected"
  /\ resp.data.time # NaN
  /\ readyState # Connected

\* C10: the answer of a read served from the store is consistent: its count
\* is at least the number of records it lists, and its message is the 'no
\* records yet' one exactly when the count is 0.
C10_StoreReadConsistent ==
  (resp.op = "read" /\ resp.status = 200 /\ resp.storage = "mongodb") =>
    /\ resp.count >= Len(resp.leaderboard)
    /\ resp.message = MsgEmpty <=> resp.count = 0

====
